---- MODULE Spec2Model ----
(***************************************************************************)
(* NFT2 mint tracking of the backend: the in-memory ledger nft2Mints, its  *)
(* file nft2_mints.json, the three /api/nft2 routes, and the process       *)
(* lifecycle (initializeDatabase / closeDatabase) that loads and saves it. *)
(* The CustomNFT2 supply counter is the chain the routes are compared to.  *)
(***************************************************************************)
EXTENDS Integers, Sequences, FiniteSets, TLC

(***************************************************************************)
(* Bounds of the model.                                                    *)
(***************************************************************************)
\* number of hex digits of an address (40 in the code's regular expression)
AddrLen == 2
\* successful track-mint requests in one behaviour
MaxMints == 2
\* process starts in one behaviour
MaxStarts == 2
\* last value of the clock
MaxClock == 1
\* on-chain mints in one behaviour
MaxChainMints == 1
\* seconds the clock runs during startup
MaxStartupSeconds == 7
\* cleanup intervals the clock runs while the cache is used
MaxCacheTicks == 4
\* successful POST /tokens/mint requests in one behaviour
MaxTokenMints == 2
\* initialSupply of CustomToken, in its smallest unit
MaxTokenAmount == 2

(***************************************************************************)
(* Program constants.                                                      *)
(***************************************************************************)
MAX_SUPPLY == 100
\* setTimeout(() => reject(new Error('timeout')), 3000)
STARTUP_TIMEOUT_MS == 3000
\* the ttl of setCache(cacheKey, { gasPrice, blockNumber }, 30)
CACHE_TTL_SECONDS == 30
\* setInterval(() => clearExpiredCache(), 10000)
CLEANUP_INTERVAL_MS == 10000
\* Date.now() + ttlSeconds * 1000
MS_PER_SECOND == 1000

(***************************************************************************)
(* Strings are sequences of one-character strings, so that toLowerCase,    *)
(* the regular expressions and parseInt are computed character by          *)
(* character.                                                              *)
(***************************************************************************)
Digits == {"0", "1", "2", "3", "4", "5", "6", "7", "8", "9"}
LowerHexLetters == {"a", "b", "c", "d", "e", "f"}
UpperHexLetters == {"A", "B", "C", "D", "E", "F"}
HexChars == Digits \cup LowerHexLetters \cup UpperHexLetters

LowerChar(c) ==
    CASE c = "A" -> "a" [] c = "B" -> "b" [] c = "C" -> "c"
      [] c = "D" -> "d" [] c = "E" -> "e" [] c = "F" -> "f"
      [] c = "G" -> "g" [] c = "X" -> "x"
      [] OTHER -> c

UpperChar(c) ==
    CASE c = "a" -> "A" [] c = "b" -> "B" [] c = "c" -> "C"
      [] c = "d" -> "D" [] c = "e" -> "E" [] c = "f" -> "F"
      [] OTHER -> c

\* String.prototype.toLowerCase
toLowerCase(s) == [i \in 1..Len(s) |-> LowerChar(s[i])]

\* /^0x[a-fA-F0-9]{40}$/.test(address), with AddrLen digits for 40
MatchesAddressRegex(s) ==
    /\ Len(s) = 2 + AddrLen
    /\ s[1] = "0"
    /\ s[2] = "x"
    /\ \A i \in 3..Len(s) : s[i] \in HexChars

\* The EIP-55 capitalisation of a lower-case address.  The real one takes the
\* capitals from a hash of the address; here the hex letters at odd positions
\* of the digits are the capitals: one fixed capitalisation per address.
getChecksumAddress(s) ==
    [i \in 1..Len(s) |-> IF i > 2 /\ (i - 2) % 2 = 1
                         THEN UpperChar(LowerChar(s[i]))
                         ELSE LowerChar(s[i])]

\* ethers.isAddress: the shape /^(0x)?[0-9a-fA-F]{40}$/, and an address that
\* mixes upper-case and lower-case hex letters must carry its checksum.
isAddress(s) ==
    LET full == IF Len(s) >= 2 /\ s[1] = "0" /\ s[2] = "x"
                THEN s ELSE <<"0", "x">> \o s
        mixed == /\ \E i \in 1..Len(s) : s[i] \in UpperHexLetters
                 /\ \E i \in 1..Len(s) : s[i] \in LowerHexLetters
    IN  /\ Len(full) = 2 + AddrLen
        /\ \A i \in 3..Len(full) : full[i] \in HexChars
        /\ (mixed => getChecksumAddress(full) = full)

(***************************************************************************)
(* JavaScript numbers: an integer or NaN.                                  *)
(***************************************************************************)
NaN == [nan |-> TRUE, val |-> 0]
Num(n) == [nan |-> FALSE, val |-> n]

DigitValue(c) ==
    CASE c = "0" -> 0 [] c = "1" -> 1 [] c = "2" -> 2 [] c = "3" -> 3
      [] c = "4" -> 4 [] c = "5" -> 5 [] c = "6" -> 6 [] c = "7" -> 7
      [] c = "8" -> 8 [] c = "9" -> 9

\* the value of the longest prefix of digits of s, acc digits read so far
RECURSIVE ParseDigits(_, _, _)
ParseDigits(s, acc, seen) ==
    IF s = <<>> \/ Head(s) \notin Digits
    THEN IF seen THEN Num(acc) ELSE NaN
    ELSE ParseDigits(Tail(s), 10 * acc + DigitValue(Head(s)), TRUE)

\* parseInt(s, 10): an optional sign, then digits up to the first other
\* character; NaN when there is no digit
parseInt(s) ==
    IF s # <<>> /\ Head(s) = "-"
    THEN LET p == ParseDigits(Tail(s), 0, FALSE)
         IN  IF p.nan THEN NaN ELSE Num(0 - p.val)
    ELSE IF s # <<>> /\ Head(s) = "+"
    THEN ParseDigits(Tail(s), 0, FALSE)
    ELSE ParseDigits(s, 0, FALSE)

(***************************************************************************)
(* Values of the request body.  A tokenId is undefined, a number or a      *)
(* string; address and txHash are strings, the empty one standing for a    *)
(* missing field too (both are falsy).                                     *)
(***************************************************************************)
Undefined == [type |-> "undefined", num |-> 0, str |-> <<>>]
JsNumber(n) == [type |-> "number", num |-> n, str |-> <<>>]
JsString(s) == [type |-> "string", num |-> 0, str |-> s]

\* typeof tokenId === 'string' ? parseInt(tokenId, 10) : Number(tokenId)
tokenIdNum(tokenId) ==
    IF tokenId.type = "string" THEN parseInt(tokenId.str) ELSE Num(tokenId.num)

Prefixed(body) == <<"0", "x">> \o body

\* addresses of the right shape: one recipient in every capitalisation, and
\* a second recipient
ShapedAddresses ==
    {Prefixed(b) : b \in [1..AddrLen -> {"a", "A"}]}
        \cup {Prefixed([i \in 1..AddrLen |-> "1"])}

\* too short, and not hexadecimal
MisshapedAddresses ==
    {Prefixed([i \in 1..(AddrLen - 1) |-> "a"]), Prefixed([i \in 1..AddrLen |-> "g"])}

AddressInputs == ShapedAddresses \cup MisshapedAddresses

NumericTokenIds ==
    {JsNumber(n) : n \in {0 - 1, 0, MAX_SUPPLY - 1, MAX_SUPPLY}} \cup {JsString(<<"0">>)}

SomeAddress == Prefixed([i \in 1..AddrLen |-> "a"])

\* request bodies of POST /nft2/track-mint: the well-formed ones, and one
\* body for each way of being malformed (no address, a misshaped address, no
\* tokenId, a tokenId that is not a number, one that is not an integer, no
\* txHash)
TrackMintBodies ==
    {[address |-> a, tokenId |-> t, txHash |-> "0xt1"] :
        a \in ShapedAddresses, t \in NumericTokenIds}
    \cup {[address |-> a, tokenId |-> JsNumber(0), txHash |-> "0xt1"] :
        a \in MisshapedAddresses \cup {<<>>}}
    \cup {[address |-> SomeAddress, tokenId |-> t, txHash |-> "0xt1"] :
        t \in {Undefined, JsString(<<"x">>), JsString(<<"0", ".", "5">>)}}
    \cup {[address |-> SomeAddress, tokenId |-> JsNumber(0), txHash |-> ""]}

(***************************************************************************)
(* The ledger.  A mint record is NFT2Mint; nft2Mints is a JavaScript Map   *)
(* from the lower-case address to the array of its records, kept as the    *)
(* sequence of its entries in insertion order (the order saveNFT2Mints     *)
(* writes them in).                                                        *)
(***************************************************************************)
NFT2Mint(address, tokenId, txHash, timestamp) ==
    [address |-> address, tokenId |-> tokenId, txHash |-> txHash,
     timestamp |-> timestamp]

EmptyMap == <<>>

MapHas(m, k) == \E i \in 1..Len(m) : m[i].key = k

\* nft2Mints.get(k) || []
MapGet(m, k) ==
    IF MapHas(m, k)
    THEN m[CHOOSE i \in 1..Len(m) : m[i].key = k].val
    ELSE <<>>

\* if (!m.has(k)) m.set(k, []); m.get(k).push(x)
MapPush(m, k, x) ==
    IF MapHas(m, k)
    THEN [i \in 1..Len(m) |->
            IF m[i].key = k THEN [key |-> k, val |-> Append(m[i].val, x)]
                            ELSE m[i]]
    ELSE Append(m, [key |-> k, val |-> <<x>>])

\* for (const mints of m.values()) allMints.push(...mints)
RECURSIVE MapValues(_)
MapValues(m) ==
    IF m = <<>> THEN <<>> ELSE Head(m).val \o MapValues(Tail(m))

NoFile == [exists |-> FALSE, mints |-> <<>>]

\* the loop of loadNFT2Mints over the parsed file
RECURSIVE GroupByAddress(_, _)
GroupByAddress(m, mints) ==
    IF mints = <<>> THEN m
    ELSE GroupByAddress(MapPush(m, toLowerCase(Head(mints).address), Head(mints)),
                        Tail(mints))

\* loadNFT2Mints: the records of the file are pushed onto the Map as it is
loadNFT2Mints(m, file) ==
    IF file.exists THEN GroupByAddress(m, file.mints) ELSE m

\* saveNFT2Mints: the whole Map is written over the file; an error of
\* writeFileSync (written = FALSE) is caught and logged, the file stays
saveNFT2Mints(m, file, written) ==
    IF written THEN [exists |-> TRUE, mints |-> MapValues(m)] ELSE file

\* getNFT2Mints
getNFT2Mints(m, address) == MapGet(m, toLowerCase(address))

\* addNFT2Mint: the record, and the Map after the push
addNFT2MintRecord(address, tokenId, txHash, time) ==
    NFT2Mint(toLowerCase(address), tokenId, txHash, time)

\* a variant that skips a report whose tokenId and txHash are on record
addNFT2MintDeduplicating(m, address, tokenId, txHash, time) ==
    LET have == MapGet(m, toLowerCase(address))
    IN  IF \E i \in 1..Len(have) :
               have[i].tokenId = tokenId /\ have[i].txHash = txHash
        THEN m
        ELSE MapPush(m, toLowerCase(address),
                     addNFT2MintRecord(address, tokenId, txHash, time))

\* a variant that sets the array of the address instead of pushing onto it
addNFT2MintOverwriting(m, address, tokenId, txHash, time) ==
    LET k == toLowerCase(address)
        x == addNFT2MintRecord(address, tokenId, txHash, time)
    IN  IF MapHas(m, k)
        THEN [i \in 1..Len(m) |->
                IF m[i].key = k THEN [key |-> k, val |-> <<x>>] ELSE m[i]]
        ELSE Append(m, [key |-> k, val |-> <<x>>])

addNFT2Mint(m, address, tokenId, txHash, time) ==
    MapPush(m, toLowerCase(address),
            addNFT2MintRecord(address, tokenId, txHash, time))

SeqToSet(s) == {s[i] : i \in 1..Len(s)}

\* Math.max(...ids) of a non-empty array
MathMax(ids) == CHOOSE x \in SeqToSet(ids) : \A y \in SeqToSet(ids) : y <= x

\* a variant that counts token ids from 1
nextTokenIdFromOne(mints) ==
    IF Len(mints) > 0
    THEN MathMax([i \in 1..Len(mints) |-> mints[i].tokenId]) + 1
    ELSE 1

\* let nextTokenId = 0; if (mints.length > 0) nextTokenId = maxTokenId + 1
nextTokenIdOf(mints) ==
    IF Len(mints) > 0
    THEN MathMax([i \in 1..Len(mints) |-> mints[i].tokenId]) + 1
    ELSE 0

(***************************************************************************)
(* State.                                                                  *)
(***************************************************************************)
VARIABLES
    running,        \* the server process is up and listening
    dbInit,         \* initializeDatabase: "idle", "pending", "done"
    nft2Mints,      \* database.ts: the Map nft2Mints
    mintsFile,      \* data/nft2_mints.json
    now,            \* the clock read by new Date()
    resp,           \* the response of the request just served
    tokenIdCounter, \* CustomNFT2._tokenIdCounter
    rpcUp,          \* the chain can be read
    acked,          \* records returned by track-mint in this process, in order
    persisted,      \* records acknowledged and on file at an earlier shutdown
    mintCalls,      \* successful track-mint requests so far
    starts,         \* process starts so far
    owners,         \* CustomNFT2: ERC721._owners, token id -> holder
    txResult,       \* the outcome of the transaction just executed
    tokenMinted,    \* the token ids of the TokenMinted events emitted so far
    clients,        \* the browser sessions of App.tsx
    startPc,        \* index.ts: how far start() has come
    redisClient,    \* cache.ts: "null", "connecting", "ready", "closed"
    redisTimer,     \* the redisTimeout timer of initializeServices
    dbTimer,        \* the dbTimeout timer of initializeServices
    redisData,      \* the keys held by the Redis server
    inMemoryCache,  \* cache.ts: the Map inMemoryCache
    tokenMints,     \* routes.ts: the array tokenMints
    mintIdCounter,  \* routes.ts: mintIdCounter
    posted,         \* records returned by POST /tokens/mint, in order
    balances,       \* CustomToken: ERC20._balances
    allowances,     \* CustomToken: ERC20._allowances, <<owner, spender>> -> amount
    paused,         \* CustomToken.paused
    erc20Result,    \* the outcome of the CustomToken transaction just executed
    blocked,        \* the transfer call last rejected because of the pause
    cacheRet,       \* the call of cache.ts just made and what it returned
    lastWrite       \* per key, the last completed setCache or deleteCache

vars == <<running, dbInit, nft2Mints, mintsFile, now,
          resp, tokenIdCounter, rpcUp, acked, persisted, mintCalls, starts,
          owners, txResult, tokenMinted, clients, startPc, redisClient, redisTimer,
          dbTimer, redisData, inMemoryCache, tokenMints, mintIdCounter, posted,
          balances, allowances, paused, erc20Result, blocked,
          cacheRet, lastWrite>>

chainVars == <<tokenIdCounter, rpcUp>>
procVars == <<running, dbInit, starts>>
ledgerVars == <<nft2Mints, mintsFile>>
histVars == <<acked, persisted, mintCalls>>
contractVars == <<owners, txResult, tokenMinted>>
startVars == <<startPc, redisClient, redisTimer, dbTimer>>
cacheVars == <<redisData, inMemoryCache>>
tokenVars == <<tokenMints, mintIdCounter, posted>>
erc20Vars == <<balances, allowances, paused, erc20Result, blocked>>
callVars == <<cacheRet, lastWrite>>
extraVars == <<clients, startVars, cacheVars, tokenVars, erc20Vars, callVars>>

(***************************************************************************)
(* CustomNFT2 as deployed: no token has an owner, and the deployer is the  *)
(* Ownable owner.  Accounts are externally owned; approvals and            *)
(* transferOwnership are not part of the model.                            *)
(***************************************************************************)
ZeroAddress == Prefixed([i \in 1..AddrLen |-> "0"])
ContractOwner == SomeAddress
OtherAccount == Prefixed([i \in 1..AddrLen |-> "1"])

TokenIds == 0..(MAX_SUPPLY - 1)

\* the mapping _owners, kept over the token ids written so far: address(0)
\* everywhere else
NoOwners == <<>>

\* a transaction: the function called, msg.sender, whether it succeeded, the
\* token id it was about (the first one of a mint) and the number of tokens
\* asked for
Tx(fn, sender, ok, tokenId, count) ==
    [fn |-> fn, sender |-> sender, ok |-> ok, tokenId |-> tokenId,
     count |-> count]

NoTx == Tx("none", ZeroAddress, FALSE, 0, 0)

ContractInit ==
    /\ owners = NoOwners
    /\ txResult = NoTx
    /\ tokenMinted = <<>>

(***************************************************************************)
(* CustomToken as deployed: the constructor mints initialSupply to the     *)
(* deployer, who is the Ownable owner; transfers are not paused.           *)
(***************************************************************************)
Accounts == {ContractOwner, OtherAccount}

\* a call of CustomToken: from is msg.sender except for transferFrom
Call(fn, sender, from, to, amount) ==
    [fn |-> fn, sender |-> sender, from |-> from, to |-> to, amount |-> amount]

NoCall == Call("none", ZeroAddress, ZeroAddress, ZeroAddress, 0)

\* the call, whether it succeeded, and whether it repeats the call that the
\* pause rejected last
Erc20Tx(call, ok, retry) == [call |-> call, ok |-> ok, retry |-> retry]

CustomTokenInit ==
    /\ balances = [a \in Accounts |->
                      IF a = ContractOwner THEN MaxTokenAmount ELSE 0]
    /\ allowances = [p \in Accounts \X Accounts |-> 0]
    /\ paused = FALSE
    /\ erc20Result = Erc20Tx(NoCall, FALSE, FALSE)
    /\ blocked = NoCall

(***************************************************************************)
(* The browser sessions, the cache and the token mint list as they are     *)
(* when their module or component is first evaluated.                      *)
(***************************************************************************)
Clients == {"c1", "c2"}

\* App.tsx: address "", nft2NextTokenId useState(0); minted and trackStatus
\* keep what the receipt and the backend answered
NewClient ==
    [address |-> <<>>, pc |-> "idle", nft2NextTokenId |-> 0,
     currentTokenId |-> 0, minted |-> 0 - 1, trackStatus |-> 0]

CacheKeys == {"ethereum:global-data"}

NoCacheEntry ==
    [present |-> FALSE, value |-> <<>>, expiresAt |-> 0, storedAt |-> 0,
     ttl |-> 0]

NoTimer == [state |-> "idle", due |-> 0]

\* a call of getFromCache, setCache or deleteCache: found and value are what
\* getFromCache returned (found = FALSE for null)
CacheCall(fn, key, found, value) ==
    [fn |-> fn, key |-> key, found |-> found, value |-> value]

\* what the last completed setCache or deleteCache of a key did
Written(state, value) == [state |-> state, value |-> value]

CacheCallsInit ==
    /\ cacheRet = CacheCall("none", "", FALSE, <<>>)
    /\ lastWrite = [k \in CacheKeys |-> Written("none", <<>>)]

ExtraInit ==
    /\ clients = [c \in Clients |-> NewClient]
    /\ startPc = "start"
    /\ redisClient = "null"
    /\ redisTimer = NoTimer
    /\ dbTimer = NoTimer
    /\ redisData = [k \in CacheKeys |-> NoCacheEntry]
    /\ inMemoryCache = [k \in CacheKeys |-> NoCacheEntry]
    /\ tokenMints = <<>>
    /\ mintIdCounter = 1
    /\ posted = <<>>
    /\ CustomTokenInit
    /\ CacheCallsInit

NoResp ==
    [op |-> "none", status |-> 0, address |-> <<>>, tokenId |-> Undefined,
     txHash |-> "", nextTokenId |-> 0, count |-> 0, mints |-> <<>>,
     data |-> <<>>]

Init ==
    /\ running = FALSE
    /\ dbInit = "idle"
    /\ nft2Mints = EmptyMap
    /\ mintsFile = NoFile
    /\ now = 0
    /\ resp = NoResp
    /\ tokenIdCounter = 0
    /\ rpcUp = TRUE
    /\ acked = <<>>
    /\ persisted = {}
    /\ mintCalls = 0
    /\ starts = 0
    /\ ContractInit
    /\ ExtraInit

(***************************************************************************)
(* Process lifecycle: start() awaits initializeServices, which races       *)
(* initializeDatabase against a 3 second timer, then listens.              *)
(***************************************************************************)
\* the module-level state of database.ts when the process begins
Boot ==
    /\ running = FALSE
    /\ starts < MaxStarts
    /\ starts' = starts + 1
    /\ running' = TRUE
    /\ acked' = <<>>
    /\ resp' = NoResp
    /\ UNCHANGED <<mintsFile, now, chainVars, persisted, mintCalls>>
    /\ UNCHANGED <<contractVars, extraVars>>

\* initializeDatabase with DATABASE_URL unset: useInMemoryDb = true,
\* loadInMemoryDb(), return null
StartNoDatabaseUrl ==
    /\ Boot
    /\ dbInit' = "done"
    /\ nft2Mints' = EmptyMap

\* initializeDatabase, pool.connect() resolves within the 3 seconds:
\* createTables(), loadNFT2Mints(), return pool
StartPostgresConnected ==
    /\ Boot
    /\ dbInit' = "done"
    /\ nft2Mints' = loadNFT2Mints(EmptyMap, mintsFile)

\* initializeDatabase, pool.connect() rejects within the 3 seconds: the catch
\* block sets useInMemoryDb, loadInMemoryDb(), loadNFT2Mints()
StartPostgresUnavailable ==
    /\ Boot
    /\ dbInit' = "done"
    /\ nft2Mints' = loadNFT2Mints(EmptyMap, mintsFile)

\* the 3 second timer wins the race: the server listens while pool.connect()
\* is still pending
StartDatabaseTimeout ==
    /\ Boot
    /\ dbInit' = "pending"
    /\ nft2Mints' = EmptyMap

\* the pending pool.connect() settles after the server began to listen, and
\* initializeDatabase goes on to loadNFT2Mints() on either branch
DatabaseInitSettles(connected) ==
    /\ running
    /\ dbInit = "pending"
    /\ dbInit' = "done"
    /\ nft2Mints' = loadNFT2Mints(nft2Mints, mintsFile)
    /\ resp' = NoResp
    /\ UNCHANGED <<running, starts, mintsFile, now, chainVars, histVars>>
    /\ UNCHANGED <<contractVars, extraVars>>

OnFile(file) == SeqToSet(file.mints)

\* shutdown on SIGINT / SIGTERM: closeDatabase() saves the Map, then
\* process.exit(0)
Shutdown(written) ==
    /\ running
    /\ mintsFile' = saveNFT2Mints(nft2Mints, mintsFile, written)
    /\ persisted' = persisted \cup (SeqToSet(acked) \cap OnFile(mintsFile'))
    /\ running' = FALSE
    /\ dbInit' = "idle"
    /\ nft2Mints' = EmptyMap
    /\ acked' = <<>>
    /\ resp' = NoResp
    /\ UNCHANGED <<starts, now, chainVars, mintCalls>>
    /\ UNCHANGED <<contractVars, extraVars>>

\* the process is killed without closeDatabase()
Crash ==
    /\ running
    /\ running' = FALSE
    /\ dbInit' = "idle"
    /\ nft2Mints' = EmptyMap
    /\ acked' = <<>>
    /\ resp' = NoResp
    /\ UNCHANGED <<starts, mintsFile, now, chainVars, persisted, mintCalls>>
    /\ UNCHANGED <<contractVars, extraVars>>

(***************************************************************************)
(* The routes.                                                             *)
(***************************************************************************)
Response(op, status, address, tokenId, txHash) ==
    [NoResp EXCEPT !.op = op, !.status = status, !.address = address,
                   !.tokenId = tokenId, !.txHash = txHash]

\* a variant that also refuses a tokenId that is on record
TrackMintRejectedIfTaken(address, tokenId, txHash) ==
    \/ address = <<>> \/ tokenId.type = "undefined" \/ txHash = ""
    \/ tokenIdNum(tokenId).nan
    \/ ~MatchesAddressRegex(address)
    \/ \E i \in 1..Len(MapValues(nft2Mints)) :
          MapValues(nft2Mints)[i].tokenId = tokenIdNum(tokenId).val

\* the checks of POST /nft2/track-mint, in the order of the code
TrackMintRejected(address, tokenId, txHash) ==
    \/ address = <<>> \/ tokenId.type = "undefined" \/ txHash = ""
    \/ tokenIdNum(tokenId).nan
    \/ ~MatchesAddressRegex(address)

\* the handler of POST /nft2/track-mint
TrackMintHandler(address, tokenId, txHash) ==
    IF TrackMintRejected(address, tokenId, txHash)
    THEN /\ resp' = Response("track-mint", 400, address, tokenId, txHash)
         /\ UNCHANGED <<ledgerVars, histVars>>
    ELSE LET id == tokenIdNum(tokenId).val
             mint == addNFT2MintRecord(address, id, txHash, now)
             added == addNFT2Mint(nft2Mints, address, id, txHash, now)
         IN  /\ mintCalls < MaxMints
             /\ nft2Mints' = added
             /\ \E written \in BOOLEAN :
                    mintsFile' = saveNFT2Mints(added, mintsFile, written)
             /\ resp' = [Response("track-mint", 200, address, tokenId, txHash)
                            EXCEPT !.data = <<mint>>]
             /\ acked' = Append(acked, mint)
             /\ mintCalls' = mintCalls + 1
             /\ UNCHANGED persisted

\* POST /nft2/track-mint
TrackMint(address, tokenId, txHash) ==
    /\ running
    /\ TrackMintHandler(address, tokenId, txHash)
    /\ UNCHANGED <<procVars, now, chainVars>>
    /\ UNCHANGED <<contractVars, extraVars>>

\* the middleware validateAddress
validateAddress(address) == address # <<>> /\ isAddress(address)

Reverse(s) == [i \in 1..Len(s) |-> s[Len(s) + 1 - i]]

\* a variant that answers newest first by mints.reverse(), which reverses the
\* array of the Map in place
GetMintsReversing(address) ==
    /\ running
    /\ IF ~validateAddress(address)
       THEN /\ resp' = Response("mints", 400, address, Undefined, "")
            /\ UNCHANGED nft2Mints
       ELSE LET mints == Reverse(getNFT2Mints(nft2Mints, address))
            IN  /\ resp' = [Response("mints", 200, toLowerCase(address), Undefined, "")
                               EXCEPT !.count = Len(mints),
                                      !.nextTokenId = nextTokenIdOf(mints),
                                      !.mints = mints]
                /\ nft2Mints' = [i \in 1..Len(nft2Mints) |->
                                    IF nft2Mints[i].key = toLowerCase(address)
                                    THEN [key |-> nft2Mints[i].key, val |-> mints]
                                    ELSE nft2Mints[i]]
    /\ UNCHANGED <<procVars, mintsFile, now, chainVars, histVars>>
    /\ UNCHANGED <<contractVars, extraVars>>

\* GET /nft2/mints/:address
GetMints(address) ==
    /\ running
    /\ IF ~validateAddress(address)
       THEN resp' = Response("mints", 400, address, Undefined, "")
       ELSE LET mints == getNFT2Mints(nft2Mints, address)
            IN  resp' = [Response("mints", 200, toLowerCase(address), Undefined, "")
                            EXCEPT !.count = Len(mints),
                                   !.nextTokenId = nextTokenIdOf(mints),
                                   !.mints = mints]
    /\ UNCHANGED <<procVars, ledgerVars, now, chainVars, histVars>>
    /\ UNCHANGED <<contractVars, extraVars>>

\* GET /nft2/next-token/:address
GetNextToken(address) ==
    /\ running
    /\ IF ~validateAddress(address)
       THEN resp' = Response("next-token", 400, address, Undefined, "")
       ELSE LET mints == getNFT2Mints(nft2Mints, address)
            IN  resp' = [Response("next-token", 200, toLowerCase(address), Undefined, "")
                            EXCEPT !.count = Len(mints),
                                   !.nextTokenId = nextTokenIdOf(mints)]
    /\ UNCHANGED <<procVars, ledgerVars, now, chainVars, histVars>>
    /\ UNCHANGED <<contractVars, extraVars>>

(***************************************************************************)
(* CustomNFT2.  Each function is the effect of one transaction on the      *)
(* contract's storage: a failed require reverts the whole transaction.     *)
(***************************************************************************)
offChainVars == <<procVars, ledgerVars, now, resp, rpcUp, histVars, extraVars>>

Reverted(fn, sender, tokenId, count) ==
    /\ txResult' = Tx(fn, sender, FALSE, tokenId, count)
    /\ UNCHANGED <<tokenIdCounter, owners, tokenMinted>>

\* _owners[tokenId]
OwnerSlot(tokenId) ==
    IF tokenId \in DOMAIN owners THEN owners[tokenId] ELSE ZeroAddress

\* _owners[tokenId] = to
SetOwner(tokenId, to) == (tokenId :> to) @@ owners

\* ERC721._exists
Exists(tokenId) == OwnerSlot(tokenId) # ZeroAddress

\* ERC721.ownerOf, where the token exists
ownerOf(tokenId) == OwnerSlot(tokenId)

\* totalSupply(): return _tokenIdCounter
totalSupply == tokenIdCounter

\* a variant of safeMint that gives out the lowest token id without an owner
safeMintReusing(sender, to) ==
    IF /\ sender = ContractOwner
       /\ to # ZeroAddress
       /\ tokenIdCounter < MAX_SUPPLY
       /\ \E t \in TokenIds : ~Exists(t)
    THEN LET tokenId == CHOOSE t \in TokenIds :
                            /\ ~Exists(t)
                            /\ \A u \in 0..(t - 1) : Exists(u)
         IN  /\ tokenIdCounter' = tokenIdCounter + 1
             /\ owners' = SetOwner(tokenId, to)
             /\ tokenMinted' = Append(tokenMinted, tokenId)
             /\ txResult' = Tx("safeMint", sender, TRUE, tokenId, 1)
    ELSE Reverted("safeMint", sender, 0, 1)

\* safeMint(to) onlyOwner; _safeMint requires that the token does not exist
safeMint(sender, to) ==
    IF /\ sender = ContractOwner
       /\ to # ZeroAddress
       /\ tokenIdCounter < MAX_SUPPLY
       /\ ~Exists(tokenIdCounter)
    THEN /\ tokenIdCounter' = tokenIdCounter + 1
         /\ owners' = SetOwner(tokenIdCounter, to)
         /\ tokenMinted' = Append(tokenMinted, tokenIdCounter)
         /\ txResult' = Tx("safeMint", sender, TRUE, tokenIdCounter, 1)
    ELSE Reverted("safeMint", sender, 0, 1)

\* a variant of safeMintWithUri without require(_tokenIdCounter < MAX_SUPPLY)
safeMintWithUriUncapped(sender, to, customUri) ==
    IF /\ sender = ContractOwner
       /\ to # ZeroAddress
       /\ customUri # ""
       /\ ~Exists(tokenIdCounter)
    THEN /\ tokenIdCounter' = tokenIdCounter + 1
         /\ owners' = SetOwner(tokenIdCounter, to)
         /\ tokenMinted' = Append(tokenMinted, tokenIdCounter)
         /\ txResult' = Tx("safeMintWithUri", sender, TRUE, tokenIdCounter, 1)
    ELSE Reverted("safeMintWithUri", sender, 0, 1)

\* safeMintWithUri(to, customUri) onlyOwner
safeMintWithUri(sender, to, customUri) ==
    IF /\ sender = ContractOwner
       /\ to # ZeroAddress
       /\ tokenIdCounter < MAX_SUPPLY
       /\ customUri # ""
       /\ ~Exists(tokenIdCounter)
    THEN /\ tokenIdCounter' = tokenIdCounter + 1
         /\ owners' = SetOwner(tokenIdCounter, to)
         /\ tokenMinted' = Append(tokenMinted, tokenIdCounter)
         /\ txResult' = Tx("safeMintWithUri", sender, TRUE, tokenIdCounter, 1)
    ELSE Reverted("safeMintWithUri", sender, 0, 1)

\* a variant of batchMint that increments the counter before it takes the
\* token id: count times tokenId = ++_tokenIdCounter
batchMintPreIncrement(sender, to, count) ==
    IF /\ sender = ContractOwner
       /\ to # ZeroAddress
       /\ count > 0
       /\ tokenIdCounter + count <= MAX_SUPPLY
       /\ \A t \in (tokenIdCounter + 1)..(tokenIdCounter + count) : ~Exists(t)
    THEN /\ tokenIdCounter' = tokenIdCounter + count
         /\ owners' = [t \in (DOMAIN owners) \cup
                                 ((tokenIdCounter + 1)..(tokenIdCounter + count)) |->
                          IF t \in (tokenIdCounter + 1)..(tokenIdCounter + count)
                          THEN to ELSE owners[t]]
         /\ tokenMinted' = tokenMinted \o
                [i \in 1..count |-> tokenIdCounter + i]
         /\ txResult' = Tx("batchMint", sender, TRUE, tokenIdCounter + 1, count)
    ELSE Reverted("batchMint", sender, 0, count)

\* batchMint(to, count) onlyOwner: count times tokenId = _tokenIdCounter++
batchMint(sender, to, count) ==
    IF /\ sender = ContractOwner
       /\ to # ZeroAddress
       /\ count > 0
       /\ tokenIdCounter + count <= MAX_SUPPLY
       /\ \A t \in tokenIdCounter..(tokenIdCounter + count - 1) : ~Exists(t)
    THEN /\ tokenIdCounter' = tokenIdCounter + count
         /\ owners' = [t \in (DOMAIN owners) \cup
                                 (tokenIdCounter..(tokenIdCounter + count - 1)) |->
                          IF t \in tokenIdCounter..(tokenIdCounter + count - 1)
                          THEN to ELSE owners[t]]
         /\ tokenMinted' = tokenMinted \o
                [i \in 1..count |-> tokenIdCounter + i - 1]
         /\ txResult' = Tx("batchMint", sender, TRUE, tokenIdCounter, count)
    ELSE Reverted("batchMint", sender, 0, count)

\* a variant of burn that gives the burned token's place back to the counter
burnDecrementing(sender, tokenId) ==
    IF /\ Exists(tokenId)
       /\ (sender = ownerOf(tokenId) \/ sender = ContractOwner)
    THEN /\ owners' = SetOwner(tokenId, ZeroAddress)
         /\ tokenIdCounter' = tokenIdCounter - 1
         /\ txResult' = Tx("burn", sender, TRUE, tokenId, 0)
         /\ UNCHANGED tokenMinted
    ELSE Reverted("burn", sender, tokenId, 0)

\* burn(tokenId): ownerOf reverts for a token that does not exist; _burn
burn(sender, tokenId) ==
    IF /\ Exists(tokenId)
       /\ (sender = ownerOf(tokenId) \/ sender = ContractOwner)
    THEN /\ owners' = SetOwner(tokenId, ZeroAddress)
         /\ txResult' = Tx("burn", sender, TRUE, tokenId, 0)
         /\ UNCHANGED <<tokenIdCounter, tokenMinted>>
    ELSE Reverted("burn", sender, tokenId, 0)

\* transferToken(from, to, tokenId): safeTransferFrom by the token's owner
transferToken(sender, from, to, tokenId) ==
    IF /\ to # ZeroAddress
       /\ Exists(tokenId)
       /\ sender = ownerOf(tokenId)
       /\ from = ownerOf(tokenId)
    THEN /\ owners' = SetOwner(tokenId, to)
         /\ txResult' = Tx("transferToken", sender, TRUE, tokenId, 0)
         /\ UNCHANGED <<tokenIdCounter, tokenMinted>>
    ELSE Reverted("transferToken", sender, tokenId, 0)

\* the first tokens, the last one, and an id past the last
TokenIdInputs == {0, 1, MAX_SUPPLY - 1, MAX_SUPPLY}

BatchCounts == {0, 2, MAX_SUPPLY \div 4, MAX_SUPPLY + 1}

TxSafeMint(sender, to) ==
    /\ safeMint(sender, to)
    /\ UNCHANGED offChainVars

TxSafeMintWithUri(sender, to, customUri) ==
    /\ safeMintWithUri(sender, to, customUri)
    /\ UNCHANGED offChainVars

TxBatchMint(sender, to, count) ==
    /\ batchMint(sender, to, count)
    /\ UNCHANGED offChainVars

TxBurn(sender, tokenId) ==
    /\ burn(sender, tokenId)
    /\ UNCHANGED offChainVars

TxTransferToken(sender, from, to, tokenId) ==
    /\ transferToken(sender, from, to, tokenId)
    /\ UNCHANGED offChainVars

NextNFT2 ==
    \/ \E sender \in Accounts, to \in {OtherAccount, ZeroAddress} :
          TxSafeMint(sender, to)
    \/ \E sender \in Accounts, to \in {OtherAccount, ZeroAddress},
          customUri \in {"", "ipfs://u"} :
          TxSafeMintWithUri(sender, to, customUri)
    \/ \E sender \in Accounts, to \in {OtherAccount, ZeroAddress},
          count \in BatchCounts :
          TxBatchMint(sender, to, count)
    \/ \E sender \in Accounts, tokenId \in TokenIdInputs :
          TxBurn(sender, tokenId)
    \/ \E sender \in Accounts, from \in Accounts,
          to \in Accounts \cup {ZeroAddress}, tokenId \in TokenIdInputs :
          TxTransferToken(sender, from, to, tokenId)

SpecNFT2 == Init /\ [][NextNFT2]_vars

(***************************************************************************)
(* CustomToken.  Each function is the effect of one transaction; transfer, *)
(* transferFrom and approve go on to the ERC20 implementation they         *)
(* override or inherit.  mint, burn and burnFrom do not read paused and    *)
(* are not part of the model.                                              *)
(***************************************************************************)
erc20Frame == <<procVars, ledgerVars, now, resp, chainVars, histVars,
                contractVars, clients, startVars, cacheVars, tokenVars,
                callVars>>

\* the call repeats the one the pause rejected last, and the pause is over
Retry(call) == ~paused /\ call = blocked

Erc20Reverted(call) ==
    /\ erc20Result' = Erc20Tx(call, FALSE, Retry(call))
    /\ UNCHANGED <<balances, allowances, paused>>

\* ERC20._transfer: _balances[from] -= amount; _balances[to] += amount
Transferred(from, to, amount) ==
    [balances EXCEPT ![from] = @ - amount, ![to] = @ + amount]

\* transfer(to, amount)
transfer(sender, to, amount) ==
    LET call == Call("transfer", sender, sender, to, amount)
    IN  IF paused
        THEN /\ Erc20Reverted(call)
             /\ blocked' = call
        ELSE /\ blocked' = NoCall
             /\ IF to # ZeroAddress /\ balances[sender] >= amount
                THEN /\ balances' = Transferred(sender, to, amount)
                     /\ erc20Result' = Erc20Tx(call, TRUE, Retry(call))
                     /\ UNCHANGED <<allowances, paused>>
                ELSE Erc20Reverted(call)

\* a variant of transferFrom without require(!paused)
transferFromWhilePaused(sender, from, to, amount) ==
    LET call == Call("transferFrom", sender, from, to, amount)
    IN  /\ blocked' = NoCall
        /\ IF /\ to # ZeroAddress
              /\ allowances[<<from, sender>>] >= amount
              /\ balances[from] >= amount
           THEN /\ allowances' = [allowances EXCEPT ![<<from, sender>>] = @ - amount]
                /\ balances' = Transferred(from, to, amount)
                /\ erc20Result' = Erc20Tx(call, TRUE, Retry(call))
                /\ UNCHANGED paused
           ELSE Erc20Reverted(call)

\* transferFrom(from, to, amount): _spendAllowance(from, msg.sender, amount),
\* then _transfer
transferFrom(sender, from, to, amount) ==
    LET call == Call("transferFrom", sender, from, to, amount)
    IN  IF paused
        THEN /\ Erc20Reverted(call)
             /\ blocked' = call
        ELSE /\ blocked' = NoCall
             /\ IF /\ to # ZeroAddress
                   /\ allowances[<<from, sender>>] >= amount
                   /\ balances[from] >= amount
                THEN /\ allowances' =
                            [allowances EXCEPT ![<<from, sender>>] = @ - amount]
                     /\ balances' = Transferred(from, to, amount)
                     /\ erc20Result' = Erc20Tx(call, TRUE, Retry(call))
                     /\ UNCHANGED paused
                ELSE Erc20Reverted(call)

\* ERC20.approve(spender, amount): _allowances[msg.sender][spender] = amount
approve(sender, spender, amount) ==
    LET call == Call("approve", sender, sender, spender, amount)
    IN  /\ blocked' = NoCall
        /\ IF spender # ZeroAddress
           THEN /\ allowances' = [allowances EXCEPT ![<<sender, spender>>] = amount]
                /\ erc20Result' = Erc20Tx(call, TRUE, FALSE)
                /\ UNCHANGED <<balances, paused>>
           ELSE Erc20Reverted(call)

\* setPaused(_paused) onlyOwner; the amount of the call is 1 for true
setPaused(sender, newPaused) ==
    LET call == Call("setPaused", sender, sender, ZeroAddress,
                     IF newPaused THEN 1 ELSE 0)
    IN  /\ UNCHANGED blocked
        /\ IF sender = ContractOwner
           THEN /\ paused' = newPaused
                /\ erc20Result' = Erc20Tx(call, TRUE, FALSE)
                /\ UNCHANGED <<balances, allowances>>
           ELSE Erc20Reverted(call)

\* an amount that can be covered and one above the whole supply
TokenAmounts == {1, MaxTokenAmount + 1}

TxTransfer(sender, to, amount) ==
    /\ transfer(sender, to, amount)
    /\ UNCHANGED erc20Frame

TxTransferFrom(sender, from, to, amount) ==
    /\ transferFrom(sender, from, to, amount)
    /\ UNCHANGED erc20Frame

TxApprove(sender, spender, amount) ==
    /\ approve(sender, spender, amount)
    /\ UNCHANGED erc20Frame

TxSetPaused(sender, newPaused) ==
    /\ setPaused(sender, newPaused)
    /\ UNCHANGED erc20Frame

NextCustomToken ==
    \/ \E sender \in Accounts, to \in Accounts \cup {ZeroAddress},
          amount \in TokenAmounts :
          TxTransfer(sender, to, amount)
    \/ \E sender \in Accounts, from \in Accounts,
          to \in Accounts \cup {ZeroAddress}, amount \in TokenAmounts :
          TxTransferFrom(sender, from, to, amount)
    \/ \E sender \in Accounts :
          \E spender \in (Accounts \ {sender}) \cup {ZeroAddress} :
             TxApprove(sender, spender, 1)
    \/ \E sender \in Accounts, newPaused \in BOOLEAN :
          TxSetPaused(sender, newPaused)

SpecCustomToken == Init /\ [][NextCustomToken]_vars

(***************************************************************************)
(* The environment: the clock and the chain.                               *)
(***************************************************************************)
Tick ==
    /\ now < MaxClock
    /\ now' = now + 1
    /\ resp' = NoResp
    /\ UNCHANGED <<procVars, ledgerVars, chainVars, histVars>>
    /\ UNCHANGED <<contractVars, extraVars>>

\* CustomNFT2.safeMint: require(_tokenIdCounter < MAX_SUPPLY); _tokenIdCounter++
ChainSafeMint ==
    /\ tokenIdCounter < MaxChainMints
    /\ safeMint(ContractOwner, OtherAccount)
    /\ resp' = NoResp
    /\ UNCHANGED <<procVars, ledgerVars, now, rpcUp, histVars, extraVars>>

\* the RPC endpoint becomes unreachable, or reachable again
RpcChanges ==
    /\ rpcUp' = ~rpcUp
    /\ resp' = NoResp
    /\ UNCHANGED <<procVars, ledgerVars, now, tokenIdCounter, histVars>>
    /\ UNCHANGED <<contractVars, extraVars>>

Next ==
    \/ StartNoDatabaseUrl
    \/ StartPostgresConnected
    \/ StartPostgresUnavailable
    \/ StartDatabaseTimeout
    \/ \E connected \in BOOLEAN : DatabaseInitSettles(connected)
    \/ \E written \in BOOLEAN : Shutdown(written)
    \/ Crash
    \/ \E body \in TrackMintBodies :
          TrackMint(body.address, body.tokenId, body.txHash)
    \/ \E address \in AddressInputs : GetMints(address)
    \/ \E address \in AddressInputs : GetNextToken(address)
    \/ Tick

Spec == Init /\ [][Next]_vars

(***************************************************************************)
(* The routes of one running server next to the chain: the server was      *)
(* started with DATABASE_URL unset and no ledger file, and the chain moves *)
(* while requests are served.                                              *)
(***************************************************************************)
InitServing ==
    /\ running = TRUE
    /\ dbInit = "done"
    /\ nft2Mints = EmptyMap
    /\ mintsFile = NoFile
    /\ now = 0
    /\ resp = NoResp
    /\ tokenIdCounter = 0
    /\ rpcUp = TRUE
    /\ acked = <<>>
    /\ persisted = {}
    /\ mintCalls = 0
    /\ starts = 1
    /\ ContractInit
    /\ ExtraInit

NextChain ==
    \/ \E body \in TrackMintBodies :
          TrackMint(body.address, body.tokenId, body.txHash)
    \/ \E address \in AddressInputs : GetMints(address)
    \/ \E address \in AddressInputs : GetNextToken(address)
    \/ Tick
    \/ ChainSafeMint
    \/ RpcChanges

SpecChain == InitServing /\ [][NextChain]_vars

(***************************************************************************)
(* Two browser sessions of App.tsx mint NFT2 next to each other: each      *)
(* connects a wallet, which loads the next token id from the chain, sends  *)
(* safeMint, waits for the receipt and reports the mint to the backend.    *)
(* Each session mints once.                                                *)
(***************************************************************************)
clientFrame == <<procVars, now, rpcUp, startVars, cacheVars, tokenVars,
                 erc20Vars, callVars>>

TxHashOf(c) == IF c = "c1" THEN "0xt1" ELSE "0xt2"

\* loadNFT2NextTokenId: Number(await contract.totalSupply()); an error of
\* the call is caught and the state keeps its value
loadNFT2NextTokenId(current) == IF rpcUp THEN totalSupply ELSE current

\* connectWallet: setAddress(addr), ..., await loadNFT2NextTokenId(addr)
ConnectWallet(c, account) ==
    /\ clients[c].address = <<>>
    /\ clients' = [clients EXCEPT
          ![c].address = account,
          ![c].nft2NextTokenId = loadNFT2NextTokenId(clients[c].nft2NextTokenId)]
    /\ resp' = NoResp
    /\ UNCHANGED <<clientFrame, ledgerVars, histVars, tokenIdCounter, contractVars>>

\* mintNFT2 up to the transaction being sent: the button is disabled from
\* nft2NextTokenId 100 on; contract.safeMint(address) throws when the call
\* would revert; currentTokenId = nft2NextTokenId
MintNFT2(c) ==
    /\ clients[c].address # <<>>
    /\ clients[c].pc = "idle"
    /\ clients[c].nft2NextTokenId < 100
    /\ clients' = [clients EXCEPT
          ![c].pc = IF /\ clients[c].address = ContractOwner
                       /\ tokenIdCounter < MAX_SUPPLY
                    THEN "sent" ELSE "idle",
          ![c].currentTokenId = clients[c].nft2NextTokenId]
    /\ resp' = NoResp
    /\ UNCHANGED <<clientFrame, ledgerVars, histVars, tokenIdCounter, contractVars>>

\* the transaction is mined: safeMint(address) by the session's account; a
\* receipt with status 1 carries TokenMinted(to, tokenId, uri), a reverted
\* transaction makes tx.wait() throw
TxMined(c) ==
    /\ clients[c].pc = "sent"
    /\ safeMint(clients[c].address, clients[c].address)
    /\ clients' = [clients EXCEPT
          ![c].pc = IF txResult'.ok THEN "mined" ELSE "idle",
          ![c].minted = IF txResult'.ok THEN txResult'.tokenId ELSE 0 - 1]
    /\ resp' = NoResp
    /\ UNCHANGED <<clientFrame, ledgerVars, histVars>>

\* after the receipt: trackNFT2Mint(address, currentTokenId, tx.hash), then
\* setNft2NextTokenId(currentTokenId + 1), or 99 when that is 100
TrackNFT2Mint(c) ==
    /\ clients[c].pc = "mined"
    /\ running
    /\ TrackMintHandler(clients[c].address, JsNumber(clients[c].currentTokenId),
                        TxHashOf(c))
    /\ clients' = [clients EXCEPT
          ![c].pc = "done",
          ![c].trackStatus = resp'.status,
          ![c].nft2NextTokenId =
              IF clients[c].currentTokenId + 1 < 100
              THEN clients[c].currentTokenId + 1 ELSE 99]
    /\ UNCHANGED <<clientFrame, tokenIdCounter, contractVars>>

NextClients ==
    \/ \E c \in Clients, account \in Accounts : ConnectWallet(c, account)
    \/ \E c \in Clients : MintNFT2(c)
    \/ \E c \in Clients : TxMined(c)
    \/ \E c \in Clients : TrackNFT2Mint(c)
    \/ ChainSafeMint
    \/ RpcChanges

SpecClients == InitServing /\ [][NextClients]_vars

(***************************************************************************)
(* The same sessions next to a collection that is about to be exhausted:   *)
(* the contract owner mints all tokens but the last in one batch.          *)
(***************************************************************************)
\* CustomNFT2.batchMint(to, MAX_SUPPLY - 1) by the contract owner
ChainBatchMint ==
    /\ batchMint(ContractOwner, OtherAccount, MAX_SUPPLY - 1)
    /\ resp' = NoResp
    /\ UNCHANGED <<procVars, ledgerVars, now, rpcUp, histVars, extraVars>>

NextSoldOut ==
    \/ \E c \in Clients, account \in Accounts : ConnectWallet(c, account)
    \/ \E c \in Clients : MintNFT2(c)
    \/ \E c \in Clients : TxMined(c)
    \/ \E c \in Clients : TrackNFT2Mint(c)
    \/ ChainBatchMint
    \/ RpcChanges

SpecSoldOut == InitServing /\ [][NextSoldOut]_vars

(***************************************************************************)
(* Startup of the server, step by step: start() awaits initializeServices, *)
(* which initializes the provider, races initializeRedis and then          *)
(* initializeDatabase each against a timer of 3 seconds, and then listens. *)
(* The clock is in milliseconds.  A timer fires when it is due and time    *)
(* does not pass a due timer; a connection attempt may settle at any time  *)
(* or never.                                                               *)
(***************************************************************************)
startFrame == <<starts, mintsFile, resp, chainVars, histVars, contractVars,
                clients, cacheVars, tokenVars, erc20Vars, callVars>>

Armed(t) == [state |-> "armed", due |-> t + STARTUP_TIMEOUT_MS]
Fired(timer) == [timer EXCEPT !.state = "fired"]

\* a ledger file left by an earlier process
SomeLedgerFile ==
    [exists |-> TRUE, mints |-> <<NFT2Mint(SomeAddress, 0, "0xt1", 0)>>]

InitStartup ==
    /\ running = FALSE
    /\ dbInit = "idle"
    /\ nft2Mints = EmptyMap
    /\ mintsFile \in {NoFile, SomeLedgerFile}
    /\ now = 0
    /\ resp = NoResp
    /\ tokenIdCounter = 0
    /\ rpcUp = TRUE
    /\ acked = <<>>
    /\ persisted = {}
    /\ mintCalls = 0
    /\ starts = 0
    /\ ContractInit
    /\ ExtraInit

\* the race for Redis is over: dbTimeout is created and initializeDatabase
\* is called, which returns at once when DATABASE_URL is not set (urlSet =
\* FALSE) and awaits pool.connect() otherwise; without a pending connection
\* start() goes on to setInterval and app.listen
BeginDatabase(urlSet) ==
    /\ dbTimer' = Armed(now)
    /\ dbInit' = IF urlSet THEN "pending" ELSE "done"
    /\ startPc' = IF urlSet THEN "database" ELSE "listen"

\* initializeServices up to the first await: initializeProvider throws when
\* neither API key is configured and the catch block exits; redisTimeout is
\* created; initializeRedis creates the client (createClient throws on a bad
\* URL: created = FALSE, the function returns null) and awaits connect()
InitializeServices(configured, created, urlSet) ==
    /\ startPc = "start"
    /\ IF ~configured
       THEN /\ startPc' = "exited"
            /\ UNCHANGED <<redisClient, redisTimer, dbTimer, dbInit>>
       ELSE /\ redisTimer' = Armed(now)
            /\ IF created
               THEN /\ redisClient' = "connecting"
                    /\ startPc' = "redis"
                    /\ UNCHANGED <<dbTimer, dbInit>>
               ELSE /\ redisClient' = "null"
                    /\ BeginDatabase(urlSet)
    /\ UNCHANGED <<running, nft2Mints, now, startFrame>>

\* redisClient.connect() resolves
RedisConnected(urlSet) ==
    /\ redisClient = "connecting"
    /\ redisClient' = "ready"
    /\ IF startPc = "redis"
       THEN BeginDatabase(urlSet)
       ELSE UNCHANGED <<dbTimer, dbInit, startPc>>
    /\ UNCHANGED <<running, nft2Mints, now, redisTimer, startFrame>>

\* redisClient.connect() rejects: initializeRedis catches and returns null,
\* redisClient keeps the closed client
RedisConnectFailed(urlSet) ==
    /\ redisClient = "connecting"
    /\ redisClient' = "closed"
    /\ IF startPc = "redis"
       THEN BeginDatabase(urlSet)
       ELSE UNCHANGED <<dbTimer, dbInit, startPc>>
    /\ UNCHANGED <<running, nft2Mints, now, redisTimer, startFrame>>

\* redisTimeout rejects: Promise.race rejects if it is still pending, and
\* .catch logs 'Redis unavailable'
RedisTimeoutFires(urlSet) ==
    /\ redisTimer.state = "armed"
    /\ now >= redisTimer.due
    /\ redisTimer' = Fired(redisTimer)
    /\ IF startPc = "redis"
       THEN BeginDatabase(urlSet)
       ELSE UNCHANGED <<dbTimer, dbInit, startPc>>
    /\ UNCHANGED <<running, nft2Mints, now, redisClient, startFrame>>

\* pool.connect() settles: on both branches initializeDatabase goes on to
\* loadNFT2Mints()
InitializeDatabaseSettles(connected) ==
    /\ dbInit = "pending"
    /\ dbInit' = "done"
    /\ nft2Mints' = loadNFT2Mints(nft2Mints, mintsFile)
    /\ startPc' = IF startPc = "database" THEN "listen" ELSE startPc
    /\ UNCHANGED <<running, now, redisClient, redisTimer, dbTimer, startFrame>>

\* a variant in which the rejected race is not caught: the catch block of
\* initializeServices exits the process
DatabaseTimeoutExits ==
    /\ dbTimer.state = "armed"
    /\ now >= dbTimer.due
    /\ dbTimer' = Fired(dbTimer)
    /\ startPc' = IF startPc = "database" THEN "exited" ELSE startPc
    /\ UNCHANGED <<running, dbInit, nft2Mints, now, redisClient, redisTimer,
                   startFrame>>

\* dbTimeout rejects: Promise.race rejects if it is still pending, and
\* .catch logs 'Database unavailable'
DatabaseTimeoutFires ==
    /\ dbTimer.state = "armed"
    /\ now >= dbTimer.due
    /\ dbTimer' = Fired(dbTimer)
    /\ startPc' = IF startPc = "database" THEN "listen" ELSE startPc
    /\ UNCHANGED <<running, dbInit, nft2Mints, now, redisClient, redisTimer,
                   startFrame>>

\* app.listen: the server is listening
Listen ==
    /\ startPc = "listen"
    /\ startPc' = "listening"
    /\ running' = TRUE
    /\ UNCHANGED <<dbInit, nft2Mints, now, redisClient, redisTimer, dbTimer,
                   startFrame>>

\* the connection to Redis is lost; reconnectStrategy is false
RedisConnectionLost ==
    /\ redisClient = "ready"
    /\ redisClient' = "closed"
    /\ resp' = NoResp
    /\ UNCHANGED <<procVars, ledgerVars, now, chainVars, histVars, contractVars,
                   clients, startPc, redisTimer, dbTimer, cacheVars, tokenVars,
                   erc20Vars, callVars>>

TimerDue(timer) == timer.state = "armed" /\ now >= timer.due

\* a second passes in the started process
SecondPasses ==
    /\ startPc \notin {"start", "exited"}
    /\ now < MaxStartupSeconds * MS_PER_SECOND
    /\ ~TimerDue(redisTimer)
    /\ ~TimerDue(dbTimer)
    /\ now' = now + MS_PER_SECOND
    /\ UNCHANGED <<running, dbInit, nft2Mints, startVars, startFrame>>

NextStartup ==
    \/ \E configured, created, urlSet \in BOOLEAN :
          InitializeServices(configured, created, urlSet)
    \/ \E urlSet \in BOOLEAN : RedisConnected(urlSet)
    \/ \E urlSet \in BOOLEAN : RedisConnectFailed(urlSet)
    \/ \E urlSet \in BOOLEAN : RedisTimeoutFires(urlSet)
    \/ \E connected \in BOOLEAN : InitializeDatabaseSettles(connected)
    \/ DatabaseTimeoutFires
    \/ Listen
    \/ RedisConnectionLost
    \/ SecondPasses

\* the event loop runs what is ready: the first turn of start(), due timers
\* and the listening callback; time passes
FairStartup ==
    /\ WF_vars(\E configured, created, urlSet \in BOOLEAN :
                  InitializeServices(configured, created, urlSet))
    /\ WF_vars(\E urlSet \in BOOLEAN : RedisTimeoutFires(urlSet))
    /\ WF_vars(DatabaseTimeoutFires)
    /\ WF_vars(Listen)
    /\ WF_vars(SecondPasses)

SpecStartup == InitStartup /\ [][NextStartup]_vars /\ FairStartup

(***************************************************************************)
(* The cache of a listening server and GET /api/ethereum/:address.         *)
(* An entry of Redis or of inMemoryCache carries, next to its value and    *)
(* its expiry, the time and the ttl of the setCache that wrote it.         *)
(***************************************************************************)
CacheKey == "ethereum:global-data"

CacheEntry(value, ttlSeconds) ==
    [present |-> TRUE, value |-> value,
     expiresAt |-> now + ttlSeconds * MS_PER_SECOND,
     storedAt |-> now, ttl |-> ttlSeconds]

JSONstringify(v) == [json |-> v]
JSONparse(str) == str.json

\* GET key on the Redis server: a key set by SETEX is gone once its seconds
\* have passed
RedisGet(redis, key) ==
    IF redis[key].present /\ now < redis[key].expiresAt
    THEN redis[key] ELSE NoCacheEntry

\* a Redis command succeeds on a ready client unless it fails (ok = FALSE);
\* on a closed client it throws
RedisAnswers(ok) == redisClient = "ready" /\ ok

\* a variant of getFromCache that leaves expired entries to clearExpiredCache
getFromCacheUnchecked(redis, memory, key, ok) ==
    LET data == IF RedisAnswers(ok) THEN RedisGet(redis, key) ELSE NoCacheEntry
        cached == memory[key]
    IN  IF data.present
        THEN [entry |-> [data EXCEPT !.value = JSONparse(data.value)],
              memory |-> memory]
        ELSE [entry |-> cached, memory |-> memory]

\* getFromCache: the value found (entry.present) or null, and inMemoryCache
\* after the call
getFromCache(redis, memory, key, ok) ==
    LET data == IF RedisAnswers(ok) THEN RedisGet(redis, key) ELSE NoCacheEntry
        cached == memory[key]
    IN  IF data.present
        THEN [entry |-> [data EXCEPT !.value = JSONparse(data.value)],
              memory |-> memory]
        ELSE IF ~cached.present
        THEN [entry |-> NoCacheEntry, memory |-> memory]
        ELSE IF cached.expiresAt < now
        THEN [entry |-> NoCacheEntry,
              memory |-> [memory EXCEPT ![key] = NoCacheEntry]]
        ELSE [entry |-> cached, memory |-> memory]

\* setCache: Redis and inMemoryCache after the call
setCache(redis, memory, key, value, ttlSeconds, ok) ==
    IF RedisAnswers(ok)
    THEN [redis |-> [redis EXCEPT
                        ![key] = CacheEntry(JSONstringify(value), ttlSeconds)],
          memory |-> memory]
    ELSE [redis |-> redis,
          memory |-> [memory EXCEPT ![key] = CacheEntry(value, ttlSeconds)]]

\* clearExpiredCache
clearExpiredCache(memory) ==
    [k \in CacheKeys |->
        IF memory[k].present /\ memory[k].expiresAt < now
        THEN NoCacheEntry ELSE memory[k]]

\* deleteCache: Redis and inMemoryCache after the call; after del has
\* succeeded the function returns
deleteCache(redis, memory, key, ok) ==
    IF RedisAnswers(ok)
    THEN [redis |-> [redis EXCEPT ![key] = NoCacheEntry], memory |-> memory]
    ELSE [redis |-> redis, memory |-> [memory EXCEPT ![key] = NoCacheEntry]]

BlockNumbers == {1, 2}

\* what the provider answers to getGasPrice and getBlockNumber
ChainData(blockNumber) == [gasPrice |-> "1.0", blockNumber |-> blockNumber]

\* the cached part of the answer: the value, whether it came from the cache,
\* and the setCache that wrote it
Served(entry, isCached) ==
    [value |-> entry.value, cached |-> isCached, storedAt |-> entry.storedAt,
     ttl |-> entry.ttl]

cacheFrame == <<procVars, ledgerVars, now, chainVars, histVars, contractVars,
                clients, startVars, tokenVars, erc20Vars, callVars>>

\* GET /api/ethereum/:address.  getOk and setOk: the Redis commands succeed;
\* rpc: the provider answers everything ("ok"), fails on the gas price or
\* block number ("fees") or on the balance ("balance"); an error goes to
\* next(error)
GetEthereum(address, getOk, setOk, rpc, blockNumber) ==
    /\ running
    /\ redisClient # "connecting"
    /\ IF ~validateAddress(address)
       THEN /\ resp' = Response("ethereum", 400, address, Undefined, "")
            /\ UNCHANGED cacheVars
       ELSE LET got == getFromCache(redisData, inMemoryCache, CacheKey, getOk)
                fresh == CacheEntry(ChainData(blockNumber), CACHE_TTL_SECONDS)
                set == setCache(redisData, got.memory, CacheKey,
                                ChainData(blockNumber), CACHE_TTL_SECONDS, setOk)
                status == IF rpc = "ok" THEN 200 ELSE 500
            IN  IF got.entry.present
                THEN /\ inMemoryCache' = got.memory
                     /\ UNCHANGED redisData
                     /\ resp' = [Response("ethereum", status, address, Undefined, "")
                                    EXCEPT !.data = <<Served(got.entry, TRUE)>>]
                ELSE IF rpc = "fees"
                THEN /\ inMemoryCache' = got.memory
                     /\ UNCHANGED redisData
                     /\ resp' = Response("ethereum", 500, address, Undefined, "")
                ELSE /\ inMemoryCache' = set.memory
                     /\ redisData' = set.redis
                     /\ resp' = [Response("ethereum", status, address, Undefined, "")
                                    EXCEPT !.data = <<Served(fresh, FALSE)>>]
    /\ UNCHANGED cacheFrame

\* the interval timer of start() calls clearExpiredCache
ClearExpiredCache ==
    /\ running
    /\ inMemoryCache' = clearExpiredCache(inMemoryCache)
    /\ resp' = NoResp
    /\ UNCHANGED <<redisData, cacheFrame>>

\* one cleanup interval of time passes
IntervalPasses ==
    /\ now < MaxCacheTicks * CLEANUP_INTERVAL_MS
    /\ now' = now + CLEANUP_INTERVAL_MS
    /\ resp' = NoResp
    /\ UNCHANGED <<procVars, ledgerVars, chainVars, histVars, contractVars,
                   extraVars>>

\* a listening server whose initializeRedis has settled
InitCache ==
    /\ running = TRUE
    /\ dbInit = "done"
    /\ nft2Mints = EmptyMap
    /\ mintsFile = NoFile
    /\ now = 0
    /\ resp = NoResp
    /\ tokenIdCounter = 0
    /\ rpcUp = TRUE
    /\ acked = <<>>
    /\ persisted = {}
    /\ mintCalls = 0
    /\ starts = 1
    /\ ContractInit
    /\ clients = [c \in Clients |-> NewClient]
    /\ startPc = "listening"
    /\ redisClient \in {"null", "ready", "closed"}
    /\ redisTimer = Fired(Armed(0))
    /\ dbTimer = Fired(Armed(0))
    /\ redisData = [k \in CacheKeys |-> NoCacheEntry]
    /\ inMemoryCache = [k \in CacheKeys |-> NoCacheEntry]
    /\ tokenMints = <<>>
    /\ mintIdCounter = 1
    /\ posted = <<>>
    /\ CustomTokenInit
    /\ CacheCallsInit

EthereumAddresses == {SomeAddress, Prefixed([i \in 1..AddrLen |-> "g"])}

NextCache ==
    \/ \E address \in EthereumAddresses, getOk, setOk \in BOOLEAN,
          rpc \in {"ok", "fees", "balance"}, blockNumber \in BlockNumbers :
          GetEthereum(address, getOk, setOk, rpc, blockNumber)
    \/ ClearExpiredCache
    \/ IntervalPasses
    \/ RedisConnectionLost

SpecCache == InitCache /\ [][NextCache]_vars

(***************************************************************************)
(* The functions of cache.ts called one after the other by the server,     *)
(* each call completing before the next begins, while Redis commands       *)
(* succeed or fail and time passes.                                        *)
(***************************************************************************)
callFrame == <<procVars, ledgerVars, now, resp, chainVars, histVars,
               contractVars, clients, startVars, tokenVars, erc20Vars>>

CacheValues == {<<"v1">>, <<"v2">>}

\* await setCache(key, value, 30)
SetCacheCall(key, value, ok) ==
    /\ running
    /\ LET set == setCache(redisData, inMemoryCache, key, value,
                           CACHE_TTL_SECONDS, ok)
       IN  /\ redisData' = set.redis
           /\ inMemoryCache' = set.memory
    /\ cacheRet' = CacheCall("setCache", key, FALSE, <<>>)
    /\ lastWrite' = [lastWrite EXCEPT ![key] = Written("set", value)]
    /\ UNCHANGED callFrame

\* await getFromCache(key)
GetFromCacheCall(key, ok) ==
    /\ running
    /\ LET got == getFromCache(redisData, inMemoryCache, key, ok)
       IN  /\ inMemoryCache' = got.memory
           /\ cacheRet' = CacheCall("getFromCache", key, got.entry.present,
                                    got.entry.value)
    /\ UNCHANGED <<redisData, lastWrite, callFrame>>

\* await deleteCache(key)
DeleteCacheCall(key, ok) ==
    /\ running
    /\ LET del == deleteCache(redisData, inMemoryCache, key, ok)
       IN  /\ redisData' = del.redis
           /\ inMemoryCache' = del.memory
    /\ cacheRet' = CacheCall("deleteCache", key, FALSE, <<>>)
    /\ lastWrite' = [lastWrite EXCEPT ![key] = Written("deleted", <<>>)]
    /\ UNCHANGED callFrame

NextCacheCalls ==
    \/ \E key \in CacheKeys, value \in CacheValues, ok \in BOOLEAN :
          SetCacheCall(key, value, ok)
    \/ \E key \in CacheKeys, ok \in BOOLEAN : GetFromCacheCall(key, ok)
    \/ \E key \in CacheKeys, ok \in BOOLEAN : DeleteCacheCall(key, ok)
    \/ ClearExpiredCache
    \/ IntervalPasses
    \/ RedisConnectionLost

SpecCacheCalls == InitCache /\ [][NextCacheCalls]_vars

(***************************************************************************)
(* The token mint list of routes.ts: POST /api/tokens/mint and             *)
(* GET /api/tokens/mints/:address over the array tokenMints.               *)
(***************************************************************************)
DigitChar(d) ==
    CASE d = 0 -> "0" [] d = 1 -> "1" [] d = 2 -> "2" [] d = 3 -> "3"
      [] d = 4 -> "4" [] d = 5 -> "5" [] d = 6 -> "6" [] d = 7 -> "7"
      [] d = 8 -> "8" [] d = 9 -> "9"

\* Number.prototype.toString of a non-negative integer
RECURSIVE NumberToString(_)
NumberToString(n) ==
    IF n < 10 THEN <<DigitChar(n)>>
    ELSE NumberToString(n \div 10) \o <<DigitChar(n % 10)>>

\* amount.toString()
toString(v) == IF v.type = "string" THEN v.str ELSE NumberToString(v.num)

\* !amount
Falsy(v) ==
    \/ v.type = "undefined"
    \/ (v.type = "number" /\ v.num = 0)
    \/ (v.type = "string" /\ v.str = <<>>)

TokenMint(id, address, amount, txHash, createdAt) ==
    [id |-> id, address |-> address, amount |-> amount, tx_hash |-> txHash,
     created_at |-> createdAt]

\* tokenMints.filter((mint) => mint.address === normalizedAddress)
RECURSIVE MintsOfAddress(_, _)
MintsOfAddress(mints, normalizedAddress) ==
    IF mints = <<>> THEN <<>>
    ELSE IF Head(mints).address = normalizedAddress
    THEN <<Head(mints)>> \o MintsOfAddress(Tail(mints), normalizedAddress)
    ELSE MintsOfAddress(Tail(mints), normalizedAddress)

tokenFrame == <<procVars, ledgerVars, now, chainVars, histVars, contractVars,
                clients, startVars, cacheVars, erc20Vars, callVars>>

\* POST /api/tokens/mint
PostTokenMint(address, amount, transactionHash) ==
    /\ running
    /\ IF \/ address = <<>> \/ Falsy(amount) \/ transactionHash = ""
          \/ ~MatchesAddressRegex(address)
       THEN /\ resp' = Response("token-mint", 400, address, amount, transactionHash)
            /\ UNCHANGED tokenVars
       ELSE LET mint == TokenMint(mintIdCounter, toLowerCase(address),
                                  toString(amount), transactionHash, now)
            IN  /\ mintIdCounter <= MaxTokenMints
                /\ mintIdCounter' = mintIdCounter + 1
                /\ tokenMints' = Append(tokenMints, mint)
                /\ posted' = Append(posted, mint)
                /\ resp' = [Response("token-mint", 200, address, amount,
                                     transactionHash)
                               EXCEPT !.data = <<mint>>]
    /\ UNCHANGED tokenFrame

\* GET /api/tokens/mints/:address
GetTokenMints(address) ==
    /\ running
    /\ IF ~validateAddress(address)
       THEN resp' = Response("token-mints", 400, address, Undefined, "")
       ELSE LET addressMints == MintsOfAddress(tokenMints, toLowerCase(address))
            IN  resp' = [Response("token-mints", 200, address, Undefined, "")
                            EXCEPT !.data = addressMints,
                                   !.count = Len(addressMints)]
    /\ UNCHANGED <<tokenVars, tokenFrame>>

\* request bodies of POST /tokens/mint: the well-formed ones, and one body
\* for each way of being malformed
TokenMintBodies ==
    {[address |-> a, amount |-> m, transactionHash |-> "0xt1"] :
        a \in ShapedAddresses, m \in {JsString(<<"5">>), JsNumber(12)}}
    \cup {[address |-> a, amount |-> JsNumber(12), transactionHash |-> "0xt1"] :
        a \in MisshapedAddresses \cup {<<>>}}
    \cup {[address |-> SomeAddress, amount |-> m, transactionHash |-> "0xt1"] :
        m \in {Undefined, JsNumber(0), JsString(<<>>)}}
    \cup {[address |-> SomeAddress, amount |-> JsNumber(12), transactionHash |-> ""]}

NextTokens ==
    \/ \E body \in TokenMintBodies :
          PostTokenMint(body.address, body.amount, body.transactionHash)
    \/ \E address \in AddressInputs : GetTokenMints(address)
    \/ Tick

SpecTokens == InitServing /\ [][NextTokens]_vars

(***************************************************************************)
(* Properties.                                                             *)
(***************************************************************************)
\* all records in memory, over all recipients
Ledger == MapValues(nft2Mints)

\* the number of rows of mints with the recipient, tokenId and txHash of r
Rows(mints, r) ==
    Cardinality({i \in 1..Len(mints) :
                    /\ mints[i].address = r.address
                    /\ mints[i].tokenId = r.tokenId
                    /\ mints[i].txHash = r.txHash})

OutOfRange(tokenId) ==
    /\ ~tokenIdNum(tokenId).nan
    /\ \/ tokenIdNum(tokenId).val >= MAX_SUPPLY
       \/ tokenIdNum(tokenId).val < 0

\* C1: a record of a tokenId in 0..MAX_SUPPLY-1 that track-mint has returned
\* is in the list GET /nft2/mints answers with, for the recipient written in
\* any capitalisation.
C1_RecordThenGetMints ==
    \A k \in 1..Len(acked) :
        (/\ resp.op = "mints"
         /\ toLowerCase(resp.address) = acked[k].address
         /\ acked[k].tokenId \in 0..(MAX_SUPPLY - 1))
        => /\ resp.status = 200
           /\ \E i \in 1..Len(resp.mints) : resp.mints[i].tokenId = acked[k].tokenId

\* C2: a track-mint request with a tokenId >= MAX_SUPPLY or < 0 is answered
\* 400, and the ledger in memory and the file are as before.
C2_OutOfRangeRejected ==
    [][(resp'.op = "track-mint" /\ OutOfRange(resp'.tokenId))
          => (/\ resp'.status = 400
              /\ nft2Mints' = nft2Mints
              /\ mintsFile' = mintsFile)]_vars

\* C3: once a started server has finished initializeDatabase, every record
\* that was acknowledged and on file at an earlier shutdown is returned by
\* getNFT2Mints for its recipient.
C3_RecordsSurviveRestart ==
    (running /\ dbInit = "done")
        => \A r \in persisted : r \in SeqToSet(getNFT2Mints(nft2Mints, r.address))

\* C4: when the chain can be read, next-token answers nextTokenId equal to
\* the on-chain supply, whatever the ledger holds.
C4_ChainCountWins ==
    (resp.op = "next-token" /\ resp.status = 200 /\ rpcUp)
        => resp.nextTokenId = tokenIdCounter

\* the token ids on record are 0 .. n-1, each once
SequentialLedger ==
    /\ \A i \in 1..Len(Ledger) : Ledger[i].tokenId \in 0..(Len(Ledger) - 1)
    /\ \A i, j \in 1..Len(Ledger) : i # j => Ledger[i].tokenId # Ledger[j].tokenId

\* C5: when the chain cannot be read, next-token answers nextTokenId equal
\* to the number of records of all recipients, for every queried address;
\* stated for the ledgers whose token ids are 0 .. n-1.
C5_LedgerCountFallback ==
    (resp.op = "next-token" /\ resp.status = 200 /\ ~rpcUp /\ SequentialLedger)
        => resp.nextTokenId = Len(Ledger)

\* C6: the nextTokenId that next-token and mints answer with is at most
\* MAX_SUPPLY.
C6_NextTokenIdClamped ==
    (resp.op \in {"next-token", "mints"} /\ resp.status = 200)
        => resp.nextTokenId <= MAX_SUPPLY

\* C7: no two records in memory, of any recipients, share a tokenId.
C7_TokenIdsUnique ==
    \A i, j \in 1..Len(Ledger) : i # j => Ledger[i].tokenId # Ledger[j].tokenId

\* C8: track-mint does not deduplicate: the recipient's array holds at least
\* as many rows with a given tokenId and txHash as track-mint has acknowledged
\* for them, and GET /nft2/mints answers with as many.
C8_NoDeduplication ==
    \A k \in 1..Len(acked) :
        /\ Rows(getNFT2Mints(nft2Mints, acked[k].address), acked[k]) >= Rows(acked, acked[k])
        /\ (resp.op = "mints" /\ resp.status = 200 /\ resp.address = acked[k].address)
              => Rows(resp.mints, acked[k]) >= Rows(acked, acked[k])

C8_TwoRowsReturned ==
    /\ Len(acked) = 2
    /\ Rows(acked, acked[1]) = 2
    /\ resp.op = "mints"
    /\ resp.status = 200
    /\ Rows(resp.mints, acked[1]) = 2

\* C9: within a running process every record track-mint has returned is in
\* the recipient's array in memory, with the same address, tokenId, txHash
\* and timestamp.
C9_AdditiveOnly ==
    \A k \in 1..Len(acked) :
        acked[k] \in SeqToSet(MapGet(nft2Mints, acked[k].address))

C9_ReadsAfterTwoRecords ==
    /\ Len(acked) = 2
    /\ acked[1].address = acked[2].address
    /\ acked[1].tokenId # acked[2].tokenId
    /\ resp.op \in {"mints", "next-token"}
    /\ resp.status = 200

\* C10: when track-mint answers 200, the record is in memory and in the
\* ledger file.
C10_SuccessMeansOnDisk ==
    (resp.op = "track-mint" /\ resp.status = 200)
        => /\ resp.data[1] \in SeqToSet(Ledger)
           /\ mintsFile.exists
           /\ resp.data[1] \in OnFile(mintsFile)

C12_NextTokenIdAtLeastCount ==
    (resp.op = "next-token" /\ resp.status = 200)
        => resp.nextTokenId >= Len(Ledger)

\* an optional sign followed by digits and nothing else
IntegerLiteral(s) ==
    LET digits == IF s # <<>> /\ Head(s) \in {"-", "+"} THEN Tail(s) ELSE s
    IN  /\ digits # <<>>
        /\ \A i \in 1..Len(digits) : digits[i] \in Digits

\* a body with a field missing, a recipient that is not 0x and AddrLen hex
\* digits, or a tokenId that is not an integer
MalformedBody(address, tokenId, txHash) ==
    \/ address = <<>>
    \/ tokenId.type = "undefined"
    \/ txHash = ""
    \/ ~MatchesAddressRegex(address)
    \/ (tokenId.type = "string" /\ ~IntegerLiteral(tokenId.str))

\* C13: a track-mint request with a missing field, a misshaped recipient, a
\* tokenId that is not a number or not an integer, or an empty txHash is
\* answered 400, and the ledger in memory and the file are as before.
C13_MalformedRejected ==
    [][(/\ resp'.op = "track-mint"
        /\ MalformedBody(resp'.address, resp'.tokenId, resp'.txHash))
          => (/\ resp'.status = 400
              /\ nft2Mints' = nft2Mints
              /\ mintsFile' = mintsFile)]_vars

\* C14: the list GET /nft2/mints answers with is in ascending order of
\* timestamp.
C14_OrderedByTimestamp ==
    (resp.op = "mints" /\ resp.status = 200)
        => \A i, j \in 1..Len(resp.mints) :
              i < j => resp.mints[i].timestamp <= resp.mints[j].timestamp

MintFns == {"safeMint", "safeMintWithUri", "batchMint"}

\* C16: no transaction of CustomNFT2 lowers the supply counter; once the
\* counter is MAX_SUPPLY it stays MAX_SUPPLY and every mint reverts.
C16_ExhaustionIrreversible ==
    [][/\ tokenIdCounter' >= tokenIdCounter
       /\ (tokenIdCounter = MAX_SUPPLY)
             => (/\ tokenIdCounter' = MAX_SUPPLY
                 /\ (txResult'.fn \in MintFns => ~txResult'.ok))]_vars

C16_MintRevertedAfterBurn ==
    /\ tokenIdCounter = MAX_SUPPLY
    /\ txResult.fn \in MintFns
    /\ ~txResult.ok
    /\ OwnerSlot(0) = ZeroAddress
    /\ OwnerSlot(MAX_SUPPLY - 1) = ContractOwner

\* C17: two sessions that loaded the same next token id and both minted got
\* different token ids from the chain, each owned by its session's account;
\* and the backend answered 200 to every report and holds a record with the
\* tokenId the session reported.
C17_ChainArbitrates ==
    /\ \A c, d \in Clients :
          (c # d /\ clients[c].minted >= 0 /\ clients[d].minted >= 0)
              => clients[c].minted # clients[d].minted
    /\ \A c \in Clients :
          clients[c].pc = "done"
              => /\ clients[c].trackStatus = 200
                 /\ \E i \in 1..Len(getNFT2Mints(nft2Mints, clients[c].address)) :
                       LET r == getNFT2Mints(nft2Mints, clients[c].address)[i]
                       IN  /\ r.tokenId = clients[c].currentTokenId
                           /\ r.txHash = TxHashOf(c)

C17_BothReportedTheSameId ==
    /\ \A c \in Clients : clients[c].pc = "done" /\ clients[c].trackStatus = 200
    /\ clients["c1"].currentTokenId = clients["c2"].currentTokenId
    /\ clients["c1"].minted # clients["c2"].minted
    /\ Len(Ledger) = 2
    /\ Ledger[1].tokenId = Ledger[2].tokenId

\* C18: once initializeProvider has passed, startup reaches the listening
\* state, whether Redis and PostgreSQL connect, fail or leave their 3 second
\* timers to fire; and the process exits only from initializeProvider.
C18_StartupReachesListening ==
    /\ (startPc \in {"redis", "database", "listen"}) ~> running
    /\ [][startPc' = "exited" => startPc = "start"]_vars

C18_ListeningAfterBothTimeouts ==
    /\ running
    /\ redisTimer.state = "fired"
    /\ dbTimer.state = "fired"
    /\ redisClient = "connecting"
    /\ dbInit = "pending"

\* C19: a value that GET /api/ethereum took from getFromCache was stored by
\* a setCache at most ttl seconds ago, from Redis and from inMemoryCache
\* alike.
C19_CacheTtl ==
    (resp.op = "ethereum" /\ resp.data # <<>> /\ resp.data[1].cached)
        => now <= resp.data[1].storedAt + resp.data[1].ttl * MS_PER_SECOND

C19_HitAtTheLastMoment ==
    /\ resp.op = "ethereum"
    /\ resp.status = 200
    /\ resp.data # <<>>
    /\ resp.data[1].cached
    /\ resp.data[1].ttl = CACHE_TTL_SECONDS
    /\ now = resp.data[1].storedAt + CACHE_TTL_SECONDS * MS_PER_SECOND
    /\ redisClient = "closed"

\* the records POST /tokens/mint has returned for the address, in order
PostedFor(address) == MintsOfAddress(posted, toLowerCase(address))

\* C20: for an address that POST /tokens/mint has recorded mints for, written
\* in any capitalisation, GET /tokens/mints answers 200 with exactly the
\* records returned for it by POST, in the order of recording, and total is
\* their number.
C20_TokenMintsOfAddress ==
    (resp.op = "token-mints" /\ PostedFor(resp.address) # <<>>)
        => /\ resp.status = 200
           /\ resp.data = PostedFor(resp.address)
           /\ resp.count = Len(PostedFor(resp.address))

\* the token ids that have an owner
Owned == {t \in DOMAIN owners : owners[t] # ZeroAddress}

C22_SupplyCap ==
    /\ [](totalSupply <= MAX_SUPPLY)
    /\ [][txResult'.fn \in MintFns =>
            /\ (tokenIdCounter + txResult'.count > MAX_SUPPLY) => ~txResult'.ok
            /\ txResult'.ok =>
                   tokenIdCounter' = tokenIdCounter + txResult'.count
            /\ ~txResult'.ok => UNCHANGED <<tokenIdCounter, owners>>]_vars

C22_OwnerBatchRevertedAtTheCap ==
    /\ txResult.fn = "batchMint"
    /\ txResult.sender = ContractOwner
    /\ txResult.count = 2
    /\ ~txResult.ok
    /\ tokenIdCounter = MAX_SUPPLY - 1
    /\ Cardinality(Owned) = MAX_SUPPLY - 1

\* C23: totalSupply() is the number of token ids that have an owner.
C23_TotalSupplyCountsOwned ==
    totalSupply = Cardinality(Owned)

\* C30: no token id appears in two TokenMinted events, also when the token
\* was burned in between, and every token id minted is below MAX_SUPPLY.
C30_NoTokenIdReissued ==
    /\ Cardinality({tokenMinted[k] : k \in 1..Len(tokenMinted)})
          = Len(tokenMinted)
    /\ \A k \in 1..Len(tokenMinted) : tokenMinted[k] < MAX_SUPPLY

C30_MintAfterBurnOfLastToken ==
    /\ txResult.fn = "safeMint"
    /\ txResult.ok
    /\ tokenMinted = <<0, 1>>
    /\ ~Exists(0)
    /\ Exists(1)

TransferFns == {"transfer", "transferFrom"}

\* what ERC20 asks of a transfer call: a recipient, enough balance, and for
\* transferFrom enough allowance
CallCovered(call) ==
    /\ call.to # ZeroAddress
    /\ balances[call.from] >= call.amount
    /\ call.fn = "transferFrom"
          => allowances[<<call.from, call.sender>>] >= call.amount

\* C24: while CustomToken is paused every transfer and transferFrom reverts
\* and leaves balances and allowances as they were; while it is not paused
\* a transfer call succeeds exactly if it has a recipient and is covered by
\* balance and allowance, so that a call the pause rejected goes through
\* once the owner has called setPaused(false); only the owner changes paused.
C24_PauseStopsTransfers ==
    [][/\ (erc20Result'.call.fn \in TransferFns /\ paused)
            => (~erc20Result'.ok /\ UNCHANGED <<balances, allowances>>)
       /\ (erc20Result'.call.fn \in TransferFns /\ ~paused)
            => (erc20Result'.ok <=> CallCovered(erc20Result'.call))
       /\ (paused' # paused)
            => (/\ erc20Result'.call.fn = "setPaused"
                /\ erc20Result'.call.sender = ContractOwner)]_vars

C24_RejectedTransferSucceedsAfterUnpause ==
    /\ erc20Result.call.fn = "transfer"
    /\ erc20Result.call.sender = OtherAccount
    /\ erc20Result.ok
    /\ erc20Result.retry
    /\ ~paused

\* C25: a session that has minted the last token of the collection, id
\* MAX_SUPPLY - 1, having loaded that id as its next one, shows MAX_SUPPLY as
\* its next token id, the value at which the page says that all tokens are
\* minted.
C25_SoldOutShown ==
    \A c \in Clients :
        (/\ clients[c].pc = "done"
         /\ clients[c].minted = MAX_SUPPLY - 1
         /\ clients[c].currentTokenId = MAX_SUPPLY - 1)
            => clients[c].nft2NextTokenId = MAX_SUPPLY

\* C26: the token id a session has reported to POST /nft2/track-mint is the
\* token id its mint transaction was given by the contract.
C26_ReportedIdIsChainId ==
    \A c \in Clients :
        clients[c].pc = "done"
            => clients[c].currentTokenId = clients[c].minted

\* C27: in the first process started on an empty data directory the ledger
\* in memory holds as many records as track-mint has accepted: each record
\* once, also when initializeDatabase finishes after the server has begun
\* to serve.
C27_EachRecordOnce ==
    (running /\ starts = 1) => Len(Ledger) = mintCalls

\* C28: when the last completed write of a key is a deleteCache, getFromCache
\* of the key returns null.
C28_DeletedStaysDeleted ==
    (cacheRet.fn = "getFromCache" /\ lastWrite[cacheRet.key].state = "deleted")
        => ~cacheRet.found

\* C29: when the last completed write of a key is a setCache, a value that
\* getFromCache returns for the key is the value of that setCache.
C29_LatestValueReturned ==
    (/\ cacheRet.fn = "getFromCache"
     /\ cacheRet.found
     /\ lastWrite[cacheRet.key].state = "set")
        => cacheRet.value = lastWrite[cacheRet.key].value

====
